---- MODULE Spec2Model ----
(***************************************************************************)
(* Model of nodeshot/core/base/managers.py: the published / access-level   *)
(* filters (PublishedMixin, ACLMixin), the attribute forwarding of         *)
(* ExtendedManagerMixin and the manager / queryset classes assembled from  *)
(* them.  A behaviour is a caller that obtains a manager, chains filter    *)
(* calls on it and looks attributes up on it.                              *)
(***************************************************************************)
EXTENDS Integers, Sequences, FiniteSets, TLC

\* ---------------------------------------------------------------- bounds
MaxRecords == 2
MaxChain == 2

Rows == 1..MaxRecords

\* ------------------------------------------------------- environment data
\* nodeshot.core.base.choices.ACCESS_LEVELS: tier name -> rank
ACCESS_LEVELS ==
    [n \in {"public", "community", "member", "admin"} |->
        CASE n = "public" -> 0
          [] n = "community" -> 10
          [] n = "member" -> 20
          [] n = "admin" -> 30]

TierRanks == {ACCESS_LEVELS[n] : n \in DOMAIN ACCESS_LEVELS}

\* django.contrib.auth Group rows: id -> name.  Insertion order is not
\* privilege order, and a group need not be named after a tier.
AuthGroups ==
    [g \in 1..3 |->
        CASE g = 1 -> "admin"
          [] g = 2 -> "community"
          [] g = 3 -> "staff"]

GroupIds == DOMAIN AuthGroups

\* the User rows reachable through User.objects.get(pk=...)
UserTable ==
    [pk \in 1..2 |->
        CASE pk = 1 -> [is_superuser |-> TRUE, is_authenticated |-> TRUE, groups |-> {}]
          [] pk = 2 -> [is_superuser |-> FALSE, is_authenticated |-> TRUE, groups |-> {1, 2}]]

\* ------------------------------------------------------------- arguments
\* `user` argument of accessible_to: a user object or an integer pk
\* (an object that is not authenticated has no group rows)
UserObjects ==
    {u \in [isint : {FALSE}, pk : {0}, is_superuser : BOOLEAN,
            is_authenticated : BOOLEAN, groups : SUBSET GroupIds] :
        ~u.is_authenticated => u.groups = {}}

UserPks ==
    [isint : {TRUE}, pk : 1..3, is_superuser : {FALSE},
     is_authenticated : {FALSE}, groups : {{}}]

UserArgs == UserObjects \cup UserPks

NoUser ==
    [isint |-> TRUE, pk |-> 0, is_superuser |-> FALSE,
     is_authenticated |-> FALSE, groups |-> {}]

\* `access_level` argument of access_level_up_to: an int or a string
IntLevels == {10, 25}
NameLevels == {"public", "community", "member", "admin", "galactic-admin"}

LevelArgs ==
    [isint : {TRUE}, n : IntLevels, s : {""}] \cup
    [isint : {FALSE}, n : {0}, s : NameLevels]

NoLevel == [isint |-> FALSE, n |-> 0, s |-> ""]

\* --------------------------------------------------------------- classes
ManagerKinds == {"PublishedManager", "AccessLevelManager", "AccessLevelPublishedManager"}

\* attribute names looked up in the model
AttrNames ==
    {"published", "access_level_up_to", "accessible_to", "get_query_set",
     "filter", "delete", "mro", "bogus"}

\* django.db.models.Manager / QuerySet attributes among AttrNames
ManagerAttrs == {"get_query_set", "filter"}
QuerySetAttrs == {"filter", "delete"}
\* attributes a class object answers through its metaclass (type)
TypeAttrs == {"mro"}

PublishedMixin == {"published"}
ACLMixin == {"access_level_up_to", "accessible_to"}

PublishedQuerySet == QuerySetAttrs \cup PublishedMixin
AccessLevelQuerySet == QuerySetAttrs \cup ACLMixin
AccessLevelPublishedQuerySet == QuerySetAttrs \cup ACLMixin \cup PublishedMixin

PublishedManager == ManagerAttrs \cup PublishedMixin
AccessLevelManager == ManagerAttrs \cup ACLMixin
AccessLevelPublishedManager == ManagerAttrs \cup ACLMixin \cup PublishedMixin

\* attributes of the manager class `k` (its bases' attributes)
ClassAttrs(k) ==
    CASE k = "PublishedManager" -> PublishedManager
      [] k = "AccessLevelManager" -> AccessLevelManager
      [] k = "AccessLevelPublishedManager" -> AccessLevelPublishedManager

\* attributes of the queryset class that get_query_set of `k` instantiates
QuerySetClassAttrs(k) ==
    CASE k = "PublishedManager" -> PublishedQuerySet
      [] k = "AccessLevelManager" -> AccessLevelQuerySet
      [] k = "AccessLevelPublishedManager" -> AccessLevelPublishedQuerySet

VARIABLES
    kind,     \* class of the manager the caller works with
    table,    \* the model's records: row -> [is_published, access_level]
    recv,     \* the object the next call is made on: manager or queryset
    err,      \* exception raised by the last call, "none" if it returned
    call,     \* the last call: operation, arguments and receiver
    trail,    \* filter calls chained since the manager was obtained
    got       \* attribute just looked up on the manager, before any call

vars == <<kind, table, recv, err, call, trail, got>>

\* ---------------------------------------------------------- ORM results
Ok(rows) == [err |-> "none", rows |-> rows]
Raise(e) == [err |-> e, rows |-> {}]

\* Manager.get_query_set(): every row of the model; a QuerySet has no such
\* method
get_query_set(self) ==
    IF self.mgr THEN Ok(Rows) ELSE Raise("AttributeError")

\* QuerySet.filter(is_published=v) (Manager.filter goes through
\* get_query_set(), which for a manager is all rows = self.rows)
filter_is_published(self, v) ==
    Ok({r \in self.rows : table[r].is_published = v})

\* (fault: strict comparison, access_level__lt)
filter_access_level__lt(self, value) ==
    IF value.none THEN Raise("ValueError")
    ELSE Ok({r \in self.rows : table[r].access_level < value.v})

\* QuerySet.filter(access_level__lte=value); value is the result of a
\* rank lookup and may be None, which the ORM rejects as a query value
filter_access_level__lte(self, value) ==
    IF value.none THEN Raise("ValueError")
    ELSE Ok({r \in self.rows : table[r].access_level <= value.v})

Some(v) == [none |-> FALSE, v |-> v]
None == [none |-> TRUE, v |-> 0]

\* ACCESS_LEVELS.get(name): dict.get with no default
ACCESS_LEVELS_get(name) ==
    IF name \in DOMAIN ACCESS_LEVELS THEN Some(ACCESS_LEVELS[name]) ELSE None

\* ------------------------------------------------------- PublishedMixin
\* (fault: narrows the manager's rows instead of the receiver's)
published_from_manager(self) ==
    Ok({r \in Rows : table[r].is_published})

\* (fault: the flag is tested for the wrong value)
published_unpublished(self) ==
    filter_is_published(self, FALSE)

published(self) ==
    filter_is_published(self, TRUE)

\* ------------------------------------------------------------- ACLMixin
\* (fault: an unknown tier name is read as the public rank)
access_level_up_to_default_public(self, access_level) ==
    LET value == IF access_level.isint THEN Some(access_level.n)
                 ELSE IF access_level.s \in DOMAIN ACCESS_LEVELS
                      THEN Some(ACCESS_LEVELS[access_level.s])
                      ELSE Some(0)
    IN  filter_access_level__lte(self, value)

access_level_up_to(self, access_level) ==
    LET value == IF access_level.isint THEN Some(access_level.n)
                 ELSE ACCESS_LEVELS_get(access_level.s)
    IN  filter_access_level__lte(self, value)

\* User.objects.get(pk=user) when `user` is an integer
resolve_user(user) ==
    IF user.isint
    THEN IF user.pk \in DOMAIN UserTable
         THEN [err |-> "none", is_superuser |-> UserTable[user.pk].is_superuser,
               is_authenticated |-> UserTable[user.pk].is_authenticated,
               groups |-> UserTable[user.pk].groups]
         ELSE [err |-> "DoesNotExist", is_superuser |-> FALSE,
               is_authenticated |-> FALSE, groups |-> {}]
    ELSE [err |-> "none", is_superuser |-> user.is_superuser,
          is_authenticated |-> user.is_authenticated, groups |-> user.groups]

Max(S) == CHOOSE x \in S : \A y \in S : y <= x
Min(S) == CHOOSE x \in S : \A y \in S : x <= y

\* (fault: ascending order)
RECURSIVE order_by_id_asc(_)
order_by_id_asc(gs) ==
    IF gs = {} THEN <<>>
    ELSE <<Min(gs)>> \o order_by_id_asc(gs \ {Min(gs)})

\* user.groups.all().order_by('-id'): group ids, highest first
RECURSIVE order_by_id_desc(_)
order_by_id_desc(gs) ==
    IF gs = {} THEN <<>>
    ELSE <<Max(gs)>> \o order_by_id_desc(gs \ {Max(gs)})

\* superuser branch: self.get_query_set(), or self on AttributeError
superuser_queryset(self) ==
    LET q == get_query_set(self)
    IN  IF q.err = "AttributeError" THEN Ok(self.rows) ELSE q

\* authenticated branch: [0] of the ordered groups, then the rank filter
group_queryset(self, groups) ==
    LET ordered == order_by_id_desc(groups)
    IN  IF Len(ordered) = 0 THEN Raise("IndexError")
        ELSE filter_access_level__lte(self, ACCESS_LEVELS_get(AuthGroups[ordered[1]]))

\* (fault: anonymous visitors are filtered at the community rank)
public_queryset_community(self) ==
    filter_access_level__lte(self, ACCESS_LEVELS_get("community"))

\* anonymous branch
public_queryset(self) ==
    filter_access_level__lte(self, ACCESS_LEVELS_get("public"))

\* (fault: the authentication test comes before the superuser test)
accessible_to_authenticated_first(self, user) ==
    LET u == resolve_user(user)
    IN  IF u.err # "none" THEN Raise(u.err)
        ELSE IF u.is_authenticated THEN group_queryset(self, u.groups)
        ELSE IF u.is_superuser THEN superuser_queryset(self)
        ELSE public_queryset(self)

accessible_to(self, user) ==
    LET u == resolve_user(user)
    IN  IF u.err # "none" THEN Raise(u.err)
        ELSE IF u.is_superuser THEN superuser_queryset(self)
        ELSE IF u.is_authenticated THEN group_queryset(self, u.groups)
        ELSE public_queryset(self)

\* ------------------------------------------------- ExtendedManagerMixin
Found(where) == [err |-> "none", where |-> where]
NotFound == [err |-> "AttributeError", where |-> "nowhere"]

\* getattr(self.__class__, attr): the class's attributes and those its
\* metaclass answers
getattr_class(k, attr) ==
    IF attr \in ClassAttrs(k) \cup TypeAttrs THEN Found("class") ELSE NotFound

\* getattr(self.get_query_set(), attr)
getattr_queryset(k, attr) ==
    IF attr \in QuerySetClassAttrs(k) THEN Found("queryset") ELSE NotFound

\* (fault: no forwarding to the queryset)
ExtendedManagerMixin_getattr_no_forward(k, attr) ==
    getattr_class(k, attr)

\* ExtendedManagerMixin.__getattr__
ExtendedManagerMixin_getattr(k, attr) ==
    IF getattr_class(k, attr).err = "AttributeError"
    THEN getattr_queryset(k, attr)
    ELSE getattr_class(k, attr)

\* manager.attr: normal lookup first, __getattr__ only when it fails
getattr_manager(k, attr) ==
    IF attr \in ClassAttrs(k) THEN Found("manager")
    ELSE ExtendedManagerMixin_getattr(k, attr)

\* can `op` be called on the receiver
Callable(self, op) ==
    IF self.mgr THEN getattr_manager(kind, op).err = "none"
    ELSE getattr_queryset(kind, op).err = "none"

\* ---------------------------------------------------------------- state
TheManager == [mgr |-> TRUE, rows |-> Rows]
QuerySet(rows) == [mgr |-> FALSE, rows |-> rows]

NoCall == [op |-> "none", level |-> NoLevel, user |-> NoUser, self |-> TheManager]
NoGot == [attr |-> "none", err |-> "none", where |-> "nowhere"]

Init ==
    /\ kind \in ManagerKinds
    /\ table \in [Rows -> [is_published : BOOLEAN, access_level : TierRanks]]
    /\ recv = TheManager
    /\ err = "none"
    /\ call = NoCall
    /\ trail = <<>>
    /\ got = NoGot

\* a call returned or raised: a returned queryset is the next receiver
Finish(op, level, user, res) ==
    /\ call' = [op |-> op, level |-> level, user |-> user, self |-> recv]
    /\ err' = res.err
    /\ recv' = IF res.err = "none" THEN QuerySet(res.rows) ELSE recv
    /\ trail' = IF res.err = "none" THEN Append(trail, [op |-> op, level |-> level])
                ELSE trail
    /\ got' = NoGot
    /\ UNCHANGED <<kind, table>>

CanCall(op) ==
    /\ err = "none"
    /\ Len(trail) < MaxChain
    /\ Callable(recv, op)

\* Model.objects: the caller starts again from the manager
Objects ==
    /\ recv' = TheManager
    /\ err' = "none"
    /\ trail' = <<>>
    /\ call' = NoCall
    /\ got' = NoGot
    /\ UNCHANGED <<kind, table>>

Published ==
    /\ CanCall("published")
    /\ Finish("published", NoLevel, NoUser, published(recv))

AccessLevelUpTo ==
    /\ CanCall("access_level_up_to")
    /\ \E level \in LevelArgs :
          Finish("access_level_up_to", level, NoUser, access_level_up_to(recv, level))

AccessibleTo ==
    /\ CanCall("accessible_to")
    /\ \E user \in UserArgs :
          Finish("accessible_to", NoLevel, user, accessible_to(recv, user))

GetAttr ==
    /\ err = "none"
    /\ recv.mgr
    /\ \E attr \in AttrNames :
          LET g == getattr_manager(kind, attr)
          IN  got' = [attr |-> attr, err |-> g.err, where |-> g.where]
    /\ UNCHANGED <<kind, table, recv, err, call, trail>>

Next ==
    \/ Objects
    \/ Published
    \/ AccessLevelUpTo
    \/ AccessibleTo
    \/ GetAttr

Spec == Init /\ [][Next]_vars

TypeOK ==
    /\ kind \in ManagerKinds
    /\ recv.rows \subseteq Rows
    /\ err \in {"none", "ValueError", "IndexError", "DoesNotExist"}
    /\ Len(trail) <= MaxChain

\* ===================================================================
\* Properties
\* ===================================================================

\* the actor of the last accessible_to call, after the pk lookup
Actor == resolve_user(call.user)
CalledAccessibleTo == call.op = "accessible_to" /\ Actor.err = "none"
CalledUpTo == call.op = "access_level_up_to"

\* rows of S whose access level is at most n
UpTo(S, n) == {r \in S : table[r].access_level <= n}
PublishedOf(S) == {r \in S : table[r].is_published}

\* the call returned a queryset holding exactly `rows`
Returned(rows) == err = "none" /\ ~recv.mgr /\ recv.rows = rows
\* the call raised `e` and handed no queryset back
Raised(e) == err = e /\ recv = call.self

NamePublic == [isint |-> FALSE, n |-> 0, s |-> "public"]

\* C1: accessible_to for a superuser returns every record of the
\* collection it is called on, whatever the actor's authentication flag
\* and groups are.
C1_SuperuserUnfiltered ==
    (CalledAccessibleTo /\ Actor.is_superuser) => Returned(call.self.rows)

\* a superuser who is also authenticated and in the community group, on a
\* collection holding a record above the community rank
C1_Witness ==
    /\ CalledAccessibleTo /\ Actor.is_superuser /\ Actor.is_authenticated
    /\ Actor.groups = {2}
    /\ \E r \in call.self.rows : table[r].access_level > ACCESS_LEVELS["community"]
    /\ err = "none"

\* C2: accessible_to for an anonymous actor returns the same records as
\* access_level_up_to("public"): those at or below the public rank.
C2_AnonymousIsPublic ==
    (CalledAccessibleTo /\ ~Actor.is_superuser /\ ~Actor.is_authenticated) =>
        /\ Returned(access_level_up_to(call.self, NamePublic).rows)
        /\ Returned(UpTo(call.self.rows, ACCESS_LEVELS["public"]))

\* an anonymous call that kept one record and dropped another
C2_Witness ==
    /\ CalledAccessibleTo /\ ~Actor.is_superuser /\ ~Actor.is_authenticated
    /\ err = "none"
    /\ recv.rows # {}
    /\ recv.rows # call.self.rows

\* rank N named by the level argument of the last access_level_up_to call
LevelKnown == call.level.isint \/ call.level.s \in DOMAIN ACCESS_LEVELS
LevelRank == IF call.level.isint THEN call.level.n ELSE ACCESS_LEVELS[call.level.s]

\* C3: access_level_up_to with rank N, or a tier name mapped to N, keeps
\* a record iff its access_level <= N (records exactly at N are kept).
C3_UpToInclusive ==
    (CalledUpTo /\ LevelKnown) =>
        /\ err = "none" /\ ~recv.mgr
        /\ recv.rows \subseteq call.self.rows
        /\ \A r \in call.self.rows :
              r \in recv.rows <=> table[r].access_level <= LevelRank

\* a call by tier name that kept a record exactly at the rank and dropped
\* one above it
C3_Witness ==
    /\ CalledUpTo /\ ~call.level.isint /\ LevelKnown /\ err = "none"
    /\ \E r \in recv.rows : table[r].access_level = LevelRank
    /\ \E r \in call.self.rows \ recv.rows : table[r].access_level > LevelRank

\* C4: published keeps a record iff its is_published is true; with no
\* published record the result is empty and nothing is raised.
C4_PublishedExact ==
    call.op = "published" =>
        /\ err = "none" /\ ~recv.mgr
        /\ recv.rows \subseteq call.self.rows
        /\ \A r \in call.self.rows : r \in recv.rows <=> table[r].is_published

\* published on a non-empty collection without any published record
C4_Witness ==
    /\ call.op = "published"
    /\ call.self.rows # {}
    /\ \A r \in call.self.rows : ~table[r].is_published
    /\ Returned({})

UnknownTierCall == CalledUpTo /\ ~LevelKnown

AuthenticatedCall == CalledAccessibleTo /\ ~Actor.is_superuser /\ Actor.is_authenticated

\* C6: accessible_to for an authenticated non-superuser without groups
\* does not fail and returns the records at or below the public rank.
C6_NoGroupsFallback ==
    (AuthenticatedCall /\ Actor.groups = {}) =>
        Returned(UpTo(call.self.rows, ACCESS_LEVELS["public"]))

GroupRanks(gs) == {ACCESS_LEVELS[AuthGroups[g]] : g \in gs}
AllTierGroups(gs) == \A g \in gs : AuthGroups[g] \in DOMAIN ACCESS_LEVELS

\* C7: accessible_to for an authenticated non-superuser with groups
\* filters at the highest rank among the tiers of the actor's groups.
C7_HighestTier ==
    (AuthenticatedCall /\ Actor.groups # {} /\ AllTierGroups(Actor.groups)) =>
        Returned(UpTo(call.self.rows, Max(GroupRanks(Actor.groups))))

\* C8: published then access_level_up_to(N) and access_level_up_to(N)
\* then published give the same records: the published ones with
\* access_level <= N.  Stated for every collection reached (both
\* compositions applied to it) and for the two-call chains made from the
\* manager.
C8_Commute ==
    /\ (Callable(recv, "published") /\ Callable(recv, "access_level_up_to")) =>
       \A l \in {x \in LevelArgs : x.isint} :
          LET pa == access_level_up_to(QuerySet(published(recv).rows), l)
              ap == published(QuerySet(access_level_up_to(recv, l).rows))
          IN  /\ pa.err = "none" /\ ap.err = "none"
              /\ pa.rows = ap.rows
              /\ pa.rows = PublishedOf(UpTo(recv.rows, l.n))
    /\ (Len(trail) = 2 /\ err = "none") =>
          /\ (trail[1].op = "published" /\ trail[2].op = "access_level_up_to"
                 /\ trail[2].level.isint) =>
                recv.rows = PublishedOf(UpTo(Rows, trail[2].level.n))
          /\ (trail[1].op = "access_level_up_to" /\ trail[2].op = "published"
                 /\ trail[1].level.isint) =>
                recv.rows = PublishedOf(UpTo(Rows, trail[1].level.n))

\* access_level_up_to(10) then published, where each filter dropped a
\* record the other one keeps
C8_Witness ==
    /\ Len(trail) = 2 /\ err = "none"
    /\ trail[1].op = "access_level_up_to" /\ trail[1].level.isint
    /\ trail[2].op = "published"
    /\ \E r \in Rows : ~table[r].is_published /\ table[r].access_level <= trail[1].level.n
    /\ \E r \in Rows : table[r].is_published /\ table[r].access_level > trail[1].level.n

\* C9: accessible_to for an authenticated non-superuser with groups
\* filters at the rank of the group with the largest id, whatever the
\* ranks of the other groups.
C9_HighestGroupId ==
    (AuthenticatedCall /\ Actor.groups # {}
        /\ AuthGroups[Max(Actor.groups)] \in DOMAIN ACCESS_LEVELS) =>
        Returned(UpTo(call.self.rows, ACCESS_LEVELS[AuthGroups[Max(Actor.groups)]]))

\* an actor in admin (id 1) and community (id 2): a record above the
\* community rank is dropped although admin would see it
C9_Witness ==
    /\ AuthenticatedCall /\ Actor.groups = {1, 2}
    /\ err = "none"
    /\ \E r \in call.self.rows \ recv.rows :
          table[r].access_level <= ACCESS_LEVELS["admin"]

\* getattr(self.__class__, attr) succeeds
FacadeDefines(attr) == attr \in ClassAttrs(kind) \cup TypeAttrs

\* C10: an attribute the facade defines is the facade's own; any other is
\* forwarded to the queryset of get_query_set and is that queryset's
\* attribute; the lookup fails only if the queryset lacks it too.
C10_Forwarding ==
    got.attr # "none" =>
        /\ FacadeDefines(got.attr) =>
              got.err = "none" /\ got.where \in {"manager", "class"}
        /\ (~FacadeDefines(got.attr) /\ got.attr \in QuerySetClassAttrs(kind)) =>
              got.err = "none" /\ got.where = "queryset"
        /\ got.err # "none" =>
              got.err = "AttributeError" /\ got.attr \notin QuerySetClassAttrs(kind)

\* a queryset-only attribute was looked up on the manager and forwarded
C10_Witness ==
    /\ got.attr = "delete"
    /\ ~FacadeDefines("delete")
    /\ got.where = "queryset"

====
